---- MODULE Spec2Model ----
(***************************************************************************)
(* Model of the authentication loop of RFID_Authentication_System.ino:     *)
(* card detection, identity lookup, timed PIN entry, PIN verification and  *)
(* the feedback sequences, with the millisecond clock of millis().         *)
(***************************************************************************)
EXTENDS Integers, Sequences, FiniteSets, TLC

\* ------------------------------------------------------------------ constants

PIN_TIMEOUT == 7500

pinAmount == 4

\* Number of earlier failed attempts the history counter distinguishes.
MaxPrior == 2

\* Number of keys of one attempt that may differ from every stored PIN at
\* their position (bounds the key sequences the keypad is driven with).
MaxWrongKeys == 1

\* Most the clock advances between a deadline test and the return of the
\* keypad poll that follows it (ms).
PollMs == 1

NO_KEY == "NO_KEY"

NUL == "NUL"

\* Content of a local array element that has not been written yet.
UNINIT == "UNINIT"

keys ==
  << <<"1", "2", "3", "A">>,
     <<"4", "5", "6", "B">>,
     <<"7", "8", "9", "C">>,
     <<"*", "0", "#", "D">> >>

KeyChars == {keys[r][c] : r \in 1..4, c \in 1..4}

users ==
  << [cardIDS |-> <<179, 41, 215, 5>>, pins |-> <<"1", "2", "3", "4", NUL>>, name |-> "Alice"],
     [cardIDS |-> <<94, 238, 156, 4>>, pins |-> <<"A", "B", "C", "D", NUL>>, name |-> "Bob"] >>

\* ------------------------------------------------------------ pure functions

\* memcmp(a, b, n): difference of the first differing bytes, 0 if none.
RECURSIVE MemcmpFrom(_, _, _, _)
MemcmpFrom(a, b, n, k) ==
  IF k > n THEN 0
  ELSE IF a[k] # b[k] THEN a[k] - b[k]
  ELSE MemcmpFrom(a, b, n, k + 1)

\* Mutant of memcmp: the last byte is left out of the comparison.
memcmpShort(a, b, n) == MemcmpFrom(a, b, n - 1, 1)

memcmp(a, b, n) == MemcmpFrom(a, b, n, 1)

\* strcmp(a, b) on NUL-terminated character arrays: 0 if equal up to and
\* including the first NUL, non-zero (abstracted to 1) otherwise.
RECURSIVE StrcmpFrom(_, _, _)
StrcmpFrom(a, b, k) ==
  IF a[k] # b[k] THEN 1
  ELSE IF a[k] = NUL THEN 0
  ELSE StrcmpFrom(a, b, k + 1)

\* Mutant of strcmp: only the first three characters are compared.
strcmpFirst3(a, b) == StrcmpFrom(SubSeq(a, 1, 3) \o <<NUL>>, SubSeq(b, 1, 3) \o <<NUL>>, 1)

strcmp(a, b) == StrcmpFrom(a, b, 1)

\* The search loop of lines 133-141: first index i in 0..1 whose cardIDS
\* equal the scanned bytes, -1 if none.
RECURSIVE SearchFrom(_, _)
SearchFrom(scanned, i) ==
  IF ~(i < 2) THEN -1
  ELSE IF memcmp(scanned, users[i + 1].cardIDS, 4) = 0 THEN i
  ELSE SearchFrom(scanned, i + 1)

\* Mutant of Search: rowStorer starts at 0 instead of -1.
SearchDefaultFirst(scanned) ==
  IF SearchFrom(scanned, 0) = -1 THEN 0 ELSE SearchFrom(scanned, 0)

Search(scanned) == SearchFrom(scanned, 0)

\* Mutant of PinRejected: the PIN of the first record is compared whatever
\* the resolved record.
PinRejectedFirstRow(row, entered) == strcmp(users[1].pins, entered) # 0

\* The PIN verifier's condition of line 227 (TRUE: access denied).
PinRejected(row, entered) == strcmp(users[row + 1].pins, entered) # 0

\* unsigned long: a 32-bit value held as two 16-bit halves, hi * 2^16 + lo.
U32(h, l) == [hi |-> h, lo |-> l]

\* t + d in unsigned 32-bit arithmetic, for a natural d.
Add32(t, d) ==
  LET sum == t.lo + (d % (2^16))
  IN  U32((t.hi + (d \div (2^16)) + (sum \div (2^16))) % (2^16), sum % (2^16))

\* t - start in unsigned 32-bit arithmetic.
Sub32(t, start) ==
  LET borrow == IF t.lo < start.lo THEN 1 ELSE 0
  IN  U32((t.hi - start.hi - borrow) % (2^16), (t.lo - start.lo) % (2^16))

\* x > n for a 32-bit x and a natural n below 2^16.
Gt32(x, n) == x.hi > 0 \/ x.lo > n

\* Mutant of Expired: the deadline test fires at exactly PIN_TIMEOUT.
ExpiredAtLimit(t, start) == Gt32(Sub32(t, start), PIN_TIMEOUT - 1)

\* Mutant of Expired: the clock is compared with an absolute deadline,
\* millis() > startTime + PIN_TIMEOUT, both in unsigned 32-bit arithmetic.
ExpiredAbsolute(t, start) ==
  LET d == Add32(start, PIN_TIMEOUT)
  IN  t.hi > d.hi \/ (t.hi = d.hi /\ t.lo > d.lo)

\* Mutant of Expired: the limit is taken one millisecond too long.
ExpiredLate(t, start) == Gt32(Sub32(t, start), PIN_TIMEOUT + 1)

\* The deadline test of line 186: millis() - startTime > PIN_TIMEOUT.
Expired(t, start) == Gt32(Sub32(t, start), PIN_TIMEOUT)

\* ------------------------------------------------------------------- inputs

\* Fingerprints presented to the reader: every position-wise mix of the two
\* provisioned fingerprints and of 01 02 03 04, and Alice's bytes reversed.
Cards ==
  {<<a, b, c, d>> : a \in {179, 94, 1}, b \in {41, 238, 2},
                    c \in {215, 156, 3}, d \in {5, 4}}
  \cup {<<5, 215, 41, 179>>}

\* Values of millis() at which the controller is found idle.
\* (0, and PIN_TIMEOUT ms before the clock wraps).
StartClocks == {U32(0, 0), U32(2^16 - 1, 2^16 - PIN_TIMEOUT)}

\* Instants of the PIN phase (ms since its start) the clock is sampled at
\* while the controller waits for a key. The wait loop tests the deadline on
\* every iteration, so the first instant a test can see beyond the deadline
\* is PIN_TIMEOUT + 1.
Instants == {PIN_TIMEOUT, PIN_TIMEOUT + 1}

\* Keys pressed on the keypad: the keys of the two stored PINs, a digit of
\* neither and an auxiliary symbol of neither.
Typed == {"1", "2", "3", "4", "A", "B", "C", "D", "5", "#"}

\* Number of the first n entered keys that differ from stored PIN p.
RECURSIVE WrongKeys(_, _, _)
WrongKeys(entered, p, n) ==
  IF n = 0 THEN 0
  ELSE WrongKeys(entered, p, n - 1) + (IF entered[n] # p[n] THEN 1 ELSE 0)

\* Keys the keypad may yield as key number n (1-based) after `entered`.
Pressable(entered, n) ==
  {k \in Typed \cap KeyChars :
     \E u \in 1..Len(users) :
       WrongKeys([entered EXCEPT ![n] = k], users[u].pins, n) <= MaxWrongKeys}

\* -------------------------------------------------------------------- state

VARIABLES
  pc,            \* position of the controller in loop()
  now,           \* millis()
  uid,           \* RFID.uid.uidByte[0..3]
  scannedArray,  \* local copy of the scanned fingerprint
  rowStorer,     \* index of the matching user, -1 if none
  keypadEnters,  \* char keypadEnters[5]
  i,             \* index of the PIN-entry for loop
  key,           \* last value returned by KEYPAD.getKey()
  startTime,     \* millis() at the start of the PIN phase
  lcd,           \* display: cursor row and the text printed on each row
  redLed,        \* RED_LED
  greenLed,      \* GREEN_LED
  buzzer,        \* frequency sounding on BUZZER_PIN, 0 when silent
  real,          \* ms truly elapsed since the PIN phase started
  checkAt,       \* `real` at the last deadline test of the attempt
  keyAt,         \* `real` when the last key of the attempt was obtained
  polled,        \* the keypad was polled in this attempt
  held,          \* ms since the current feedback sequence was asserted
  readFailed,    \* the last card presence ended in a failed read
  fails          \* earlier attempts that did not end in access (capped)

vars ==
  <<pc, now, uid, scannedArray, rowStorer, keypadEnters, i, key, startTime,
    lcd, redLed, greenLed, buzzer, real, checkAt, keyAt, polled, held,
    readFailed, fails>>

hw == <<lcd, redLed, greenLed, buzzer>>

locals == <<scannedArray, rowStorer, keypadEnters, i, key, startTime>>

ghosts == <<real, checkAt, keyAt, polled, held>>

NoLocals ==
  /\ scannedArray = <<UNINIT, UNINIT, UNINIT, UNINIT>>
  /\ rowStorer = -1
  /\ keypadEnters = <<UNINIT, UNINIT, UNINIT, UNINIT, UNINIT>>
  /\ i = 0
  /\ key = NO_KEY
  /\ startTime = UNINIT

NoGhosts ==
  /\ real = 0
  /\ checkAt = 0
  /\ keyAt = 0
  /\ polled = FALSE
  /\ held = 0

LcdClear == [row |-> 0, text |-> << <<>>, <<>> >>]

LcdPrint(d, s) == [d EXCEPT !.text[d.row + 1] = Append(@, s)]

LcdSetCursor(d, r) == [d EXCEPT !.row = r]

Init ==
  /\ pc = "Idle"
  /\ now \in StartClocks
  /\ uid = <<0, 0, 0, 0>>
  /\ NoLocals
  /\ NoGhosts
  /\ lcd = LcdClear
  /\ redLed = FALSE
  /\ greenLed = FALSE
  /\ buzzer = 0
  /\ readFailed = FALSE
  /\ fails = 0

\* delay(d): the clock moves on by d ms.
Delayed(t, d) == Add32(t, d)

\* End of loop(): the locals go out of scope.
Return ==
  /\ pc' = "Idle"
  /\ scannedArray' = <<UNINIT, UNINIT, UNINIT, UNINIT>>
  /\ rowStorer' = -1
  /\ keypadEnters' = <<UNINIT, UNINIT, UNINIT, UNINIT, UNINIT>>
  /\ i' = 0
  /\ key' = NO_KEY
  /\ startTime' = UNINIT
  /\ real' = 0
  /\ checkAt' = 0
  /\ keyAt' = 0
  /\ polled' = FALSE
  /\ held' = 0

Failed == fails' = IF fails < MaxPrior THEN fails + 1 ELSE fails

\* --------------------------------------------------------- card detection

\* Lines 104-107: no new card; loop() returns and time passes until the
\* next call.
NoCard ==
  /\ pc = "Idle"
  /\ now' \in StartClocks
  /\ UNCHANGED <<pc, uid, locals, hw, ghosts, readFailed, fails>>

\* Line 104: PICC_IsNewCardPresent() reports a card (cards are presented at
\* the sampled clock values).
CardPresent ==
  /\ pc = "Idle"
  /\ now \in StartClocks
  /\ pc' = "ReadSerial"
  /\ readFailed' = FALSE
  /\ UNCHANGED <<now, uid, locals, hw, ghosts, fails>>

\* Mutant of ReadFail: the card-read tone is started before the read is
\* known to have succeeded.
ReadFailBeep ==
  /\ pc = "ReadSerial"
  /\ pc' = "Idle"
  /\ readFailed' = TRUE
  /\ buzzer' = 1800
  /\ uid' \in Cards \cup {uid}
  /\ UNCHANGED <<now, locals, lcd, redLed, greenLed, ghosts, fails>>

\* Lines 111-114: PICC_ReadCardSerial() fails; loop() returns. The library
\* may already have written bytes of the uid.
ReadFail ==
  /\ pc = "ReadSerial"
  /\ pc' = "Idle"
  /\ readFailed' = TRUE
  /\ uid' \in Cards \cup {uid}
  /\ UNCHANGED <<now, locals, hw, ghosts, fails>>

\* Line 111: PICC_ReadCardSerial() succeeds and leaves the fingerprint in
\* RFID.uid.
ReadOk ==
  /\ pc = "ReadSerial"
  /\ uid' \in Cards
  /\ pc' = "CardTone"
  /\ UNCHANGED <<now, locals, hw, ghosts, readFailed, fails>>

\* Mutant of CardTone: the lookup is made without the card-read tone.
CardToneSkip ==
  /\ pc = "CardTone"
  /\ scannedArray' = uid
  /\ pc' = "Search"
  /\ UNCHANGED <<now, uid, rowStorer, keypadEnters, i, key, startTime,
                 hw, ghosts, readFailed, fails>>

\* Line 118: tone(BUZZER_PIN, 1800).
CardTone ==
  /\ pc = "CardTone"
  /\ buzzer' = 1800
  /\ pc' = "CardToneOff"
  /\ UNCHANGED <<now, uid, locals, lcd, redLed, greenLed, ghosts, readFailed, fails>>

\* Lines 119-130: delay(100), noTone, copy of the scanned bytes.
CardToneOff ==
  /\ pc = "CardToneOff"
  /\ now' = Delayed(now, 100)
  /\ buzzer' = 0
  /\ scannedArray' = uid
  /\ pc' = "Search"
  /\ UNCHANGED <<uid, rowStorer, keypadEnters, i, key, startTime,
                 lcd, redLed, greenLed, ghosts, readFailed, fails>>

\* Lines 133-141: the search of the user table.
Lookup ==
  /\ pc = "Search"
  /\ rowStorer' = Search(scannedArray)
  /\ pc' = "Found"
  /\ UNCHANGED <<now, uid, scannedArray, keypadEnters, i, key, startTime,
                 hw, ghosts, readFailed, fails>>

\* Lines 144-152: unrecognized card, rejection feedback asserted.
Unauthorized ==
  /\ pc = "Found"
  /\ rowStorer = -1
  /\ lcd' = LcdPrint(LcdClear, "UNAUTHORIZED")
  /\ buzzer' = 200
  /\ redLed' = TRUE
  /\ held' = 0
  /\ Failed
  /\ pc' = "UnauthorizedTone"
  /\ UNCHANGED <<now, uid, locals, greenLed, real, checkAt, keyAt, polled,
                 readFailed>>

\* Lines 153-154: delay(800), noTone.
UnauthorizedTone ==
  /\ pc = "UnauthorizedTone"
  /\ now' = Delayed(now, 800)
  /\ held' = held + 800
  /\ buzzer' = 0
  /\ pc' = "UnauthorizedHold"
  /\ UNCHANGED <<uid, locals, lcd, redLed, greenLed, real, checkAt, keyAt,
                 polled, readFailed, fails>>

\* UnauthorizedHold with a hold that makes 2500 ms in total.
UnauthorizedHoldShort ==
  /\ pc = "UnauthorizedHold"
  /\ now' = Delayed(now, 1700)
  /\ redLed' = FALSE
  /\ lcd' = LcdClear
  /\ Return
  /\ UNCHANGED <<uid, greenLed, buzzer, readFailed, fails>>

\* Lines 155-159: delay(2500), indicator off, display cleared, return.
UnauthorizedHold ==
  /\ pc = "UnauthorizedHold"
  /\ now' = Delayed(now, 2500)
  /\ redLed' = FALSE
  /\ lcd' = LcdClear
  /\ Return
  /\ UNCHANGED <<uid, greenLed, buzzer, readFailed, fails>>

\* ---------------------------------------------------------------- PIN entry

\* Lines 163-178: greeting, PIN prompt, start of the timeout timer.
Greeting ==
  /\ pc = "Found"
  /\ rowStorer # -1
  /\ lcd' = LcdPrint(LcdSetCursor(
               LcdPrint(LcdPrint(LcdClear, "Hello "), users[rowStorer + 1].name),
               1), "Enter Pin: ")
  /\ startTime' = now
  /\ real' = 0
  /\ key' = NO_KEY
  /\ i' = 0
  /\ pc' = "CheckTimeout"
  /\ UNCHANGED <<now, uid, scannedArray, rowStorer, keypadEnters,
                 redLed, greenLed, buzzer, checkAt, keyAt, polled, held, readFailed, fails>>

\* The clock advances while the controller is in the wait loop of lines
\* 183-205: to a later sampled instant between iterations, by at most
\* PollMs between a deadline test and the return of its poll.
Tick ==
  /\ pc \in {"CheckTimeout", "GetKey"}
  /\ \E e \in Instants :
       /\ e > real
       /\ pc = "GetKey" => e - real <= PollMs
       /\ real' = e
       /\ now' = Delayed(now, e - real)
  /\ UNCHANGED <<pc, uid, locals, hw, checkAt, keyAt, polled, held, readFailed, fails>>

\* Lines 181-186: i < pinAmount, key == NO_KEY, the deadline test.
CheckTimeout ==
  /\ pc = "CheckTimeout"
  /\ checkAt' = real
  /\ pc' = IF Expired(now, startTime) THEN "Expired" ELSE "GetKey"
  /\ UNCHANGED <<now, uid, locals, hw, real, keyAt, polled, held, readFailed, fails>>

\* Lines 188-194: session timeout, feedback asserted.
SessionExpired ==
  /\ pc = "Expired"
  /\ lcd' = LcdPrint(LcdClear, "SESSION EXPIRED")
  /\ buzzer' = 200
  /\ redLed' = TRUE
  /\ held' = 0
  /\ Failed
  /\ pc' = "ExpiredTone"
  /\ UNCHANGED <<now, uid, locals, greenLed, real, checkAt, keyAt, polled,
                 readFailed>>

\* Lines 195-196: delay(800), noTone.
ExpiredTone ==
  /\ pc = "ExpiredTone"
  /\ now' = Delayed(now, 800)
  /\ held' = held + 800
  /\ buzzer' = 0
  /\ pc' = "ExpiredHold"
  /\ UNCHANGED <<uid, locals, lcd, redLed, greenLed, real, checkAt, keyAt,
                 polled, readFailed, fails>>

\* Lines 197-201: delay(1000), indicator off, display cleared, return.
ExpiredHold ==
  /\ pc = "ExpiredHold"
  /\ now' = Delayed(now, 1000)
  /\ redLed' = FALSE
  /\ lcd' = LcdClear
  /\ Return
  /\ UNCHANGED <<uid, greenLed, buzzer, readFailed, fails>>

\* Mutant of GetKeyNone: the timeout timer is restarted on every poll.
GetKeyNoneRestart ==
  /\ pc = "GetKey"
  /\ key' = NO_KEY
  /\ polled' = TRUE
  /\ startTime' = now
  /\ pc' = "CheckTimeout"
  /\ UNCHANGED <<now, uid, scannedArray, rowStorer, keypadEnters, i,
                 hw, real, checkAt, keyAt, held, readFailed, fails>>

\* Mutant of GetKeyNone: the wait loop reads the reader again and resolves
\* the card it finds there.
GetKeyNoneReread ==
  /\ pc = "GetKey"
  /\ key' = NO_KEY
  /\ polled' = TRUE
  /\ uid' \in {c \in Cards : Search(c) # -1}
  /\ scannedArray' = uid'
  /\ rowStorer' = Search(uid')
  /\ pc' = "CheckTimeout"
  /\ UNCHANGED <<now, keypadEnters, i, startTime, hw, real, checkAt, keyAt,
                 held, readFailed, fails>>

\* Line 204: KEYPAD.getKey() finds no key.
GetKeyNone ==
  /\ pc = "GetKey"
  /\ key' = NO_KEY
  /\ polled' = TRUE
  /\ pc' = "CheckTimeout"
  /\ UNCHANGED <<now, uid, scannedArray, rowStorer, keypadEnters, i,
                 startTime, hw, real, checkAt, keyAt, held, readFailed, fails>>

\* Line 204: KEYPAD.getKey() yields a key of the 4x4 matrix.
GetKeyPressed ==
  /\ pc = "GetKey"
  /\ key' \in Pressable(keypadEnters, i + 1)
  /\ polled' = TRUE
  /\ keyAt' = real
  /\ pc' = "KeyEcho"
  /\ UNCHANGED <<now, uid, scannedArray, rowStorer, keypadEnters, i,
                 startTime, hw, real, checkAt, held, readFailed, fails>>

\* Lines 208-209: masked echo, tone(BUZZER_PIN, 1500).
KeyEcho ==
  /\ pc = "KeyEcho"
  /\ lcd' = LcdPrint(lcd, "*")
  /\ buzzer' = 1500
  /\ pc' = "KeyStore"
  /\ UNCHANGED <<now, uid, locals, redLed, greenLed, ghosts, readFailed, fails>>

\* Mutant of KeyStore: the deadline is tested again after the feedback
\* delay of every key, the fourth included.
KeyStoreRecheck ==
  /\ pc = "KeyStore"
  /\ now' = Delayed(now, 50)
  /\ real' = real + 50
  /\ buzzer' = 0
  /\ keypadEnters' = [keypadEnters EXCEPT ![i + 1] = key]
  /\ key' = NO_KEY
  /\ i' = i + 1
  /\ pc' = IF Expired(now', startTime) THEN "Expired"
           ELSE IF i + 1 < pinAmount THEN "CheckTimeout" ELSE "Verify"
  /\ UNCHANGED <<uid, scannedArray, rowStorer, startTime, lcd, redLed,
                 greenLed, checkAt, keyAt, polled, held, readFailed, fails>>

\* Mutant of KeyStore: the key is stored one slot too far.
KeyStoreShifted ==
  /\ pc = "KeyStore"
  /\ now' = Delayed(now, 50)
  /\ real' = real + 50
  /\ buzzer' = 0
  /\ keypadEnters' = [keypadEnters EXCEPT ![i + 2] = key]
  /\ key' = NO_KEY
  /\ i' = i + 1
  /\ pc' = IF i + 1 < pinAmount THEN "CheckTimeout" ELSE "Verify"
  /\ UNCHANGED <<uid, scannedArray, rowStorer, startTime, lcd, redLed,
                 greenLed, checkAt, keyAt, polled, held, readFailed, fails>>

\* Lines 210-215: delay(50), noTone, keypadEnters[i] = key, key = NO_KEY,
\* i++ and the for-loop test.
KeyStore ==
  /\ pc = "KeyStore"
  /\ now' = Delayed(now, 50)
  /\ real' = real + 50
  /\ buzzer' = 0
  /\ keypadEnters' = [keypadEnters EXCEPT ![i + 1] = key]
  /\ key' = NO_KEY
  /\ i' = i + 1
  /\ pc' = IF i + 1 < pinAmount THEN "CheckTimeout" ELSE "Verify"
  /\ UNCHANGED <<uid, scannedArray, rowStorer, startTime, lcd, redLed,
                 greenLed, checkAt, keyAt, polled, held, readFailed, fails>>

\* ---------------------------------------------------------- PIN verification

\* Mutant of Verify: a retry counter locks the PIN out after a failed
\* attempt.
VerifyLockout ==
  /\ pc = "Verify"
  /\ keypadEnters' = [keypadEnters EXCEPT ![pinAmount + 1] = NUL]
  /\ pc' = IF fails >= 1 \/ PinRejected(rowStorer, keypadEnters')
           THEN "Denied" ELSE "Granted"
  /\ UNCHANGED <<now, uid, scannedArray, rowStorer, i, key, startTime,
                 hw, ghosts, readFailed, fails>>

\* Lines 216-227: terminator written, PIN compared.
Verify ==
  /\ pc = "Verify"
  /\ keypadEnters' = [keypadEnters EXCEPT ![pinAmount + 1] = NUL]
  /\ pc' = IF PinRejected(rowStorer, keypadEnters') THEN "Denied" ELSE "Granted"
  /\ UNCHANGED <<now, uid, scannedArray, rowStorer, i, key, startTime,
                 hw, ghosts, readFailed, fails>>

\* Mutant of Denied: the positive indicator is lit for a denied PIN.
DeniedGreen ==
  /\ pc = "Denied"
  /\ lcd' = LcdPrint(LcdClear, "ACCESS DENIED")
  /\ buzzer' = 200
  /\ greenLed' = TRUE
  /\ held' = 0
  /\ Failed
  /\ pc' = "DeniedTone"
  /\ UNCHANGED <<now, uid, locals, redLed, real, checkAt, keyAt, polled,
                 readFailed>>

\* Lines 229-235: incorrect PIN, feedback asserted.
Denied ==
  /\ pc = "Denied"
  /\ lcd' = LcdPrint(LcdClear, "ACCESS DENIED")
  /\ buzzer' = 200
  /\ redLed' = TRUE
  /\ held' = 0
  /\ Failed
  /\ pc' = "DeniedTone"
  /\ UNCHANGED <<now, uid, locals, greenLed, real, checkAt, keyAt, polled,
                 readFailed>>

\* Lines 236-237: delay(800), noTone.
DeniedTone ==
  /\ pc = "DeniedTone"
  /\ now' = Delayed(now, 800)
  /\ held' = held + 800
  /\ buzzer' = 0
  /\ pc' = "DeniedHold"
  /\ UNCHANGED <<uid, locals, lcd, redLed, greenLed, real, checkAt, keyAt,
                 polled, readFailed, fails>>

\* Mutant of DeniedHold: the negative indicator is not switched off.
DeniedHoldLedOn ==
  /\ pc = "DeniedHold"
  /\ now' = Delayed(now, 700)
  /\ held' = held + 700
  /\ pc' = "DeniedClear"
  /\ UNCHANGED <<uid, locals, lcd, redLed, greenLed, buzzer, real, checkAt,
                 keyAt, polled, readFailed, fails>>

\* Lines 238-239: delay(700), indicator off.
DeniedHold ==
  /\ pc = "DeniedHold"
  /\ now' = Delayed(now, 700)
  /\ held' = held + 700
  /\ redLed' = FALSE
  /\ pc' = "DeniedClear"
  /\ UNCHANGED <<uid, locals, lcd, greenLed, buzzer, real, checkAt, keyAt,
                 polled, readFailed, fails>>

\* Lines 240-243: delay(1000), display cleared, return.
DeniedClear ==
  /\ pc = "DeniedClear"
  /\ now' = Delayed(now, 1000)
  /\ lcd' = LcdClear
  /\ Return
  /\ UNCHANGED <<uid, redLed, greenLed, buzzer, readFailed, fails>>

\* Lines 247-254: access granted, feedback asserted.
Granted ==
  /\ pc = "Granted"
  /\ lcd' = LcdPrint(LcdClear, "ACCESS GRANTED")
  /\ buzzer' = 1500
  /\ greenLed' = TRUE
  /\ held' = 0
  /\ pc' = "GrantedChime1"
  /\ UNCHANGED <<now, uid, locals, redLed, real, checkAt, keyAt, polled, readFailed, fails>>

\* Lines 255-256: delay(150), tone(BUZZER_PIN, 2000).
GrantedChime1 ==
  /\ pc = "GrantedChime1"
  /\ now' = Delayed(now, 150)
  /\ held' = held + 150
  /\ buzzer' = 2000
  /\ pc' = "GrantedChime2"
  /\ UNCHANGED <<uid, locals, lcd, redLed, greenLed, real, checkAt, keyAt,
                 polled, readFailed, fails>>

\* Lines 257-258: delay(150), noTone.
GrantedChime2 ==
  /\ pc = "GrantedChime2"
  /\ now' = Delayed(now, 150)
  /\ held' = held + 150
  /\ buzzer' = 0
  /\ pc' = "GrantedHold"
  /\ UNCHANGED <<uid, locals, lcd, redLed, greenLed, real, checkAt, keyAt,
                 polled, readFailed, fails>>

\* Lines 259-262: delay(1000), indicator off, display cleared, end of loop().
GrantedHold ==
  /\ pc = "GrantedHold"
  /\ now' = Delayed(now, 1000)
  /\ greenLed' = FALSE
  /\ lcd' = LcdClear
  /\ Return
  /\ UNCHANGED <<uid, redLed, buzzer, readFailed, fails>>

\* ------------------------------------------------------------ specification

Controller ==
  \/ NoCard \/ CardPresent \/ ReadFail \/ ReadOk \/ CardTone \/ CardToneOff
  \/ Lookup \/ Unauthorized \/ UnauthorizedTone \/ UnauthorizedHold
  \/ Greeting \/ CheckTimeout \/ SessionExpired \/ ExpiredTone \/ ExpiredHold
  \/ GetKeyNone \/ GetKeyPressed \/ KeyEcho \/ KeyStore \/ Verify
  \/ Denied \/ DeniedTone \/ DeniedHold \/ DeniedClear
  \/ Granted \/ GrantedChime1 \/ GrantedChime2 \/ GrantedHold

Next == Controller \/ Tick

Spec == Init /\ [][Next]_vars

\* The processor keeps executing loop() and the clock keeps advancing.
LiveSpec == Spec /\ WF_vars(Controller) /\ SF_vars(Tick)

\* ------------------------------------------------------- observed behaviour

\* First display row.
Shown == lcd.text[1]

\* Terminal outcome on show, by the message displayed.
Outcome ==
  CASE Shown = <<"ACCESS GRANTED">> -> "Accepted"
    [] Shown = <<"ACCESS DENIED">> -> "RejectedPin"
    [] Shown = <<"UNAUTHORIZED">> -> "RejectedCard"
    [] Shown = <<"SESSION EXPIRED">> -> "TimedOut"
    [] OTHER -> "None"

\* Fingerprint F is that of record u of the Identity Store.
IsRecord(F, u) == \A b \in 1..4 : F[b] = users[u].cardIDS[b]

InStore(F) == \E u \in 1..Len(users) : IsRecord(F, u)

\* The keys collected so far equal the stored PIN of record u.
EnteredPinOf(u) ==
  /\ i = pinAmount
  /\ \A k \in 1..pinAmount : keypadEnters[k] = users[u].pins[k]

\* Positions at which the controller has not yet searched the store.
BeforeSearch == {"Idle", "ReadSerial", "CardTone", "CardToneOff", "Search"}

UnauthorizedPcs == {"UnauthorizedTone", "UnauthorizedHold"}

ExpiredPcs == {"ExpiredTone", "ExpiredHold"}

DeniedPcs == {"DeniedTone", "DeniedHold", "DeniedClear"}

GrantedPcs == {"GrantedChime1", "GrantedChime2", "GrantedHold"}

\* -------------------------------------------------------------------- claims

\* C1: two-factor gate. "ACCESS GRANTED" is displayed or the positive
\* indicator is asserted only if the card read in this attempt is the
\* fingerprint of a record of the store and the 4 keys collected equal the
\* stored PIN of that same record.
C1_TwoFactorGate ==
  (Outcome = "Accepted" \/ greenLed)
    => \E u \in 1..Len(users) : IsRecord(uid, u) /\ EnteredPinOf(u)

\* C1 witness: Bob's card and Bob's PIN, access granted.
C1_Witness ==
  /\ Outcome = "Accepted"
  /\ greenLed
  /\ IsRecord(uid, 2)
  /\ EnteredPinOf(2)

\* C2: PIN verification. Once 4 keys are collected for a resolved identity,
\* the outcome is Accepted if they equal its stored PIN position by position
\* and RejectedPin if they differ at some position.
C2_PinVerification ==
  \A u \in 1..Len(users) :
    (IsRecord(uid, u) /\ pc \in {"Denied", "Granted"} \cup DeniedPcs \cup GrantedPcs)
      => IF EnteredPinOf(u)
         THEN pc \in {"Granted"} \cup GrantedPcs
              /\ (pc \in GrantedPcs => Outcome = "Accepted")
         ELSE pc \in {"Denied"} \cup DeniedPcs
              /\ (pc \in DeniedPcs => Outcome = "RejectedPin")

\* C2 witness: Alice's card, keys 1 2 3 and a wrong fourth key, access denied.
C2_Witness ==
  /\ IsRecord(uid, 1)
  /\ Outcome = "RejectedPin"
  /\ i = pinAmount
  /\ \A k \in 1..3 : keypadEnters[k] = users[1].pins[k]
  /\ keypadEnters[4] # users[1].pins[4]

\* C3: identity lookup. After the search, rowStorer is Alice's row for
\* B3 29 D7 05, Bob's row for 5E EE 9C 04, and -1 for every other
\* fingerprint; it names a record iff the fingerprint equals that record's
\* fingerprint byte for byte.
C3_Lookup ==
  pc \notin BeforeSearch =>
    /\ rowStorer = (IF scannedArray = <<179, 41, 215, 5>> THEN 0
                    ELSE IF scannedArray = <<94, 238, 156, 4>> THEN 1
                    ELSE -1)
    /\ (rowStorer # -1 <=> InStore(scannedArray))
    /\ (rowStorer # -1 => IsRecord(scannedArray, rowStorer + 1))
    /\ (rowStorer = 0 => users[1].name = "Alice")
    /\ (rowStorer = 1 => users[2].name = "Bob")

\* C3 witness: a fingerprint that shares Alice's first three bytes is not
\* resolved.
C3_Witness ==
  /\ pc = "Found"
  /\ scannedArray = <<179, 41, 215, 4>>
  /\ rowStorer = -1

\* C4: an attempt whose fingerprint is not in the store ends in RejectedCard
\* without entering the PIN phase: the keypad is not polled, no greeting or
\* PIN prompt is displayed and no PIN deadline is started.
C4_UnknownCardRejected ==
  (pc \notin BeforeSearch /\ ~InStore(uid)) =>
    /\ pc \in {"Found"} \cup UnauthorizedPcs
    /\ (pc \in UnauthorizedPcs => Outcome = "RejectedCard")
    /\ ~polled
    /\ lcd.text[2] = <<>>
    /\ Shown \in {<<>>, <<"UNAUTHORIZED">>}
    /\ startTime = UNINIT
    /\ i = 0

\* C4 witness: the scenario fingerprint 01 02 03 04 is rejected.
C4_Witness ==
  /\ uid = <<1, 2, 3, 4>>
  /\ Outcome = "RejectedCard"
  /\ redLed

\* Positions from the moment the fourth key is obtained to the verdict.
PinVerdictPcs == {"Verify", "Denied", "Granted"} \cup DeniedPcs \cup GrantedPcs

\* C5 as stated: a PIN phase with fewer than 4 keys obtained within 7500 ms
\* never ends in Accepted or RejectedPin, and no key obtained after more than
\* 7500 ms is appended to the buffer.
C5_Original ==
  /\ (i > 0 /\ pc \notin {"KeyEcho", "KeyStore"}) => keyAt <= PIN_TIMEOUT
  /\ Outcome \in {"Accepted", "RejectedPin"} => keyAt <= PIN_TIMEOUT

\* C5 amended: the deadline is tested before each poll. TimedOut is reached
\* exactly when a test made with fewer than 4 keys reads more than 7500 ms;
\* the keypad is polled, and a key appended, only after a test that read at
\* most 7500 ms, so a key is obtained after 7500 ms by no more than the
\* duration of its poll.
C5_TimeoutAtDeadlineTest ==
  /\ checkAt > PIN_TIMEOUT <=> pc \in {"Expired"} \cup ExpiredPcs
  /\ (pc \in {"Expired"} \cup ExpiredPcs) => i < pinAmount
  /\ (pc \in ExpiredPcs) => Outcome = "TimedOut"
  /\ Outcome \in {"Accepted", "RejectedPin"} => i = pinAmount
  /\ (pc \in {"KeyEcho", "KeyStore"}) => keyAt - checkAt <= PollMs
  /\ (i > 0 \/ pc \in {"KeyEcho", "KeyStore"}) => keyAt <= PIN_TIMEOUT + PollMs

\* C5 witness: Bob's card, two keys, then the deadline passes.
C5_Witness ==
  /\ IsRecord(uid, 2)
  /\ i = 2
  /\ Outcome = "TimedOut"
  /\ checkAt = PIN_TIMEOUT + 1

\* C6: when the fourth key is obtained at most 7500 ms after the start of
\* the PIN phase, the attempt goes on to the PIN comparison and ends in
\* Accepted or RejectedPin, never in TimedOut, although the feedback delay
\* of the key may carry the clock past the deadline.
C6_CompletionInWindow ==
  ( /\ i = pinAmount \/ (i = pinAmount - 1 /\ pc \in {"KeyEcho", "KeyStore"})
    /\ keyAt <= PIN_TIMEOUT )
    => /\ pc \in {"KeyEcho", "KeyStore"} \cup PinVerdictPcs
       /\ Outcome \in {"None", "Accepted", "RejectedPin"}
       /\ (pc \in GrantedPcs => Outcome = "Accepted")
       /\ (pc \in DeniedPcs => Outcome = "RejectedPin")

\* C6 witness: fourth key obtained at exactly 7500 ms, comparison made
\* after the deadline, access granted.
C6_Witness ==
  /\ i = pinAmount
  /\ keyAt = PIN_TIMEOUT
  /\ real > PIN_TIMEOUT
  /\ Outcome = "Accepted"

\* C7: whenever the controller is idle (polling for a card), both
\* indicators are off, no entered key is retained and no outcome is on show.
C7_IdleClean ==
  pc \in {"Idle", "ReadSerial"} =>
    /\ ~redLed
    /\ ~greenLed
    /\ \A k \in 1..(pinAmount + 1) : keypadEnters[k] = UNINIT
    /\ i = 0
    /\ key = NO_KEY
    /\ Outcome = "None"

\* C7 witness: idle again after failed attempts.
C7_Witness ==
  /\ pc = "Idle"
  /\ fails = MaxPrior

\* C8: a card reported present whose read fails leaves the controller idle
\* with display, indicators and tone unchanged, no lookup made and no
\* session created; the next poll starts from the idle state it left.
C8_TransientReadFailure ==
  [][(pc = "ReadSerial" /\ readFailed')
       => /\ pc' = "Idle"
          /\ UNCHANGED <<lcd, redLed, greenLed, buzzer>>
          /\ UNCHANGED <<now, locals, ghosts, fails>>
          /\ rowStorer' = -1
          /\ startTime' = UNINIT]_vars

\* C8 witness: idle after a failed read.
C8_Witness ==
  /\ pc = "Idle"
  /\ readFailed

\* C9: with the processor running and the clock advancing, every attempt
\* reaches a terminal outcome, shows no second outcome, and returns to idle,
\* whatever the keypad yields.
C9_AttemptTerminates ==
  /\ (pc = "CardTone") ~> (Outcome # "None")
  /\ (pc # "Idle") ~> (pc = "Idle")
  /\ [][Outcome # "None" => Outcome' \in {Outcome, "None"}]_vars

\* C9 witness: the keypad never yielded a key and the attempt timed out.
C9_Witness ==
  /\ Outcome = "TimedOut"
  /\ i = 0
  /\ polled

\* Outcome fixed by the fingerprint, the keys collected and whether the
\* deadline cut the entry short.
ExpectedOutcome ==
  IF ~InStore(uid) THEN "RejectedCard"
  ELSE IF i < pinAmount THEN "TimedOut"
  ELSE IF \E u \in 1..Len(users) : IsRecord(uid, u) /\ EnteredPinOf(u) THEN "Accepted"
  ELSE "RejectedPin"

\* C10: the outcome of an attempt depends on its fingerprint, keys and key
\* timing only, whatever the number of earlier failed attempts; a recognized
\* card with its correct PIN is accepted after any number of failures, and
\* an idle controller holds no session state.
C10_NoCarryOver ==
  /\ Outcome # "None" => Outcome = ExpectedOutcome
  /\ \A u \in 1..Len(users) :
       (pc \in {"Denied", "Granted"} /\ IsRecord(uid, u) /\ EnteredPinOf(u))
         => pc = "Granted"
  /\ pc = "Idle" => NoLocals /\ NoGhosts /\ lcd = LcdClear /\ buzzer = 0

\* C10 witness: Alice is accepted after the most failed attempts counted.
C10_Witness ==
  /\ fails = MaxPrior
  /\ IsRecord(uid, 1)
  /\ Outcome = "Accepted"

\* Decimal digit characters.
Digits == {"0", "1", "2", "3", "4", "5", "6", "7", "8", "9"}

\* The four auxiliary symbols of the keymap.
AuxKeys == KeyChars \ Digits

\* strlen of a NUL-terminated character array.
RECURSIVE StrlenFrom(_, _)
StrlenFrom(s, k) == IF s[k] = NUL THEN k - 1 ELSE StrlenFrom(s, k + 1)

\* Record u has a PIN of exactly 4 decimal digits.
FourDigitPin(u) ==
  /\ StrlenFrom(users[u].pins, 1) = pinAmount
  /\ \A k \in 1..pinAmount : users[u].pins[k] \in Digits

\* C11: every record of the store has a PIN of exactly 4 decimal digits, and
\* no two records share a fingerprint; so whichever record the controller
\* resolves for a card has a 4-digit PIN and is the only one with that
\* fingerprint.
C11_StoreWellFormed ==
  \A u \in 1..Len(users) :
    (pc \notin BeforeSearch /\ rowStorer = u - 1) =>
      /\ FourDigitPin(u)
      /\ \A v \in 1..Len(users) : v # u => users[v].cardIDS # users[u].cardIDS

\* C12: the auxiliary symbols take no part in PIN logic. No key sequence
\* compared against a stored PIN contains an auxiliary symbol, and access
\* is never granted on a sequence that contains one.
C12_AuxKeysUnused ==
  /\ pc \in PinVerdictPcs => \A k \in 1..pinAmount : keypadEnters[k] \notin AuxKeys
  /\ Outcome = "Accepted" => \A k \in 1..pinAmount : keypadEnters[k] \notin AuxKeys

\* Milliseconds from asserting the rejection feedback to the end of the step
\* being taken.
FeedbackMs == held + Sub32(now', now).lo

\* C13 as stated: the rejection feedback of an unrecognized card is cleared
\* 2500 ms after it was asserted.
C13_Original ==
  [][(Outcome = "RejectedCard" /\ Outcome' = "None") => FeedbackMs = 2500]_vars

\* C13: on an unrecognized card the display shows "UNAUTHORIZED" and the
\* negative indicator is asserted, the 200 Hz tone sounds for 800 ms, the
\* display and indicator are held for a further 2500 ms and then cleared:
\* 3300 ms from asserting the feedback to clearing it.
C13_RejectedCardFeedback ==
  [][/\ (pc = "Found" /\ pc' = "UnauthorizedTone") =>
          /\ Outcome' = "RejectedCard"
          /\ redLed' /\ buzzer' = 200 /\ held' = 0
     /\ (pc = "UnauthorizedTone" /\ pc' # pc) =>
          /\ FeedbackMs = 800
          /\ Outcome' = "RejectedCard" /\ redLed' /\ buzzer' = 0
     /\ (Outcome = "RejectedCard" /\ Outcome' = "None") =>
          /\ FeedbackMs = 3300
          /\ Sub32(now', now) = U32(0, 2500)
          /\ redLed /\ ~redLed' /\ buzzer' = 0]_vars

C13_Witness ==
  /\ pc = "UnauthorizedHold"
  /\ Outcome = "RejectedCard"
  /\ held = 800
  /\ redLed
  /\ buzzer = 0

\* Program positions of the PIN wait loop and of the timeout feedback.
PinEntryPcs == {"CheckTimeout", "GetKey", "KeyEcho", "KeyStore"}

TimedOutPcs == {"Expired"} \cup ExpiredPcs

\* C14: TimedOut is declared only by a deadline test made immediately before
\* a keypad poll with fewer than 4 keys in the buffer, and only when more
\* than 7500 ms have elapsed since the start of the PIN phase; a test at
\* exactly 7500 ms passes and the keypad is polled once more; every poll is
\* preceded by a test that passed, so the first test after the deadline
\* declares the timeout.
C14_TimeoutCheckPolicy ==
  [][/\ (pc' \in TimedOutPcs /\ pc \notin TimedOutPcs) =>
          /\ pc = "CheckTimeout" /\ pc' = "Expired"
          /\ i < pinAmount /\ key = NO_KEY
          /\ real > PIN_TIMEOUT
     /\ (pc = "CheckTimeout" /\ pc' # pc) =>
          /\ real <= PIN_TIMEOUT => pc' = "GetKey"
          /\ real > PIN_TIMEOUT => pc' = "Expired"
          /\ checkAt' = real
     /\ (pc' = "GetKey" /\ pc # "GetKey") =>
          /\ pc = "CheckTimeout"
          /\ i < pinAmount
          /\ real <= PIN_TIMEOUT]_vars

\* C14 witness: a test made at exactly 7500 ms has passed and the keypad is
\* about to be polled.
C14_Witness ==
  /\ pc = "GetKey"
  /\ real = PIN_TIMEOUT
  /\ checkAt = PIN_TIMEOUT

\* C15: for every card read, recognized or not, the 1800 Hz tone is emitted
\* and stopped before the lookup, hence before any greeting, PIN prompt or
\* "UNAUTHORIZED": the lookup is entered only from the step that stops the
\* tone, and nothing is displayed or lit before the lookup.
C15_CardToneBeforeLookup ==
  [][/\ (pc = "ReadSerial" /\ pc' \notin {"ReadSerial", "Idle"}) => pc' = "CardTone"
     /\ (pc = "CardTone" /\ pc' # pc) =>
          pc' = "CardToneOff" /\ buzzer' = 1800
     /\ (pc' = "Search" /\ pc # "Search") =>
          /\ pc = "CardToneOff"
          /\ buzzer = 1800 /\ buzzer' = 0
          /\ Sub32(now', now) = U32(0, 100)
     /\ (pc' = "Found" /\ pc # "Found") => pc = "Search" /\ buzzer = 0
     /\ (pc' \in BeforeSearch) => lcd' = LcdClear /\ ~redLed' /\ ~greenLed'
     /\ (lcd' # lcd /\ lcd' # LcdClear) => pc \notin BeforeSearch]_vars

\* C15 witness: an unrecognized card has been looked up after its tone and
\* the rejection is about to be shown.
C15_Witness ==
  /\ pc = "Found"
  /\ rowStorer = -1
  /\ buzzer = 0
  /\ lcd = LcdClear

\* Number of masked characters on the PIN row of the display.
Stars == Cardinality({k \in DOMAIN lcd.text[2] : lcd.text[2][k] = "*"})

\* Number of keys held by keypadEnters.
BufLen == Cardinality({k \in 1..pinAmount : keypadEnters[k] # UNINIT})

\* The buffer during PIN entry: i keys, in slots 0..i-1, nothing beyond
\* them; the echo of the key being handled is on the display for the 50 ms
\* of its tone before the key is stored.
BufferShape ==
  (pc \in PinEntryPcs \cup {"Verify"}) =>
    /\ i <= pinAmount
    /\ BufLen = i
    /\ \A k \in 1..pinAmount : keypadEnters[k] # UNINIT <=> k <= i
    /\ keypadEnters[pinAmount + 1] = UNINIT
    /\ Stars = i + (IF pc = "KeyStore" THEN 1 ELSE 0)
    /\ (pc \in {"CheckTimeout", "GetKey", "Verify"}) => Stars = BufLen

C17_IndicatorExclusivity ==
  /\ ~(redLed /\ greenLed)
  /\ greenLed <=> pc \in GrantedPcs
  /\ greenLed => Outcome = "Accepted"
  /\ redLed <=> pc \in UnauthorizedPcs \cup ExpiredPcs \cup {"DeniedTone", "DeniedHold"}
  /\ redLed => \/ pc \in UnauthorizedPcs /\ Outcome = "RejectedCard"
               \/ pc \in DeniedPcs /\ Outcome = "RejectedPin"
               \/ pc \in ExpiredPcs /\ Outcome = "TimedOut"

\* C17 witness: the positive indicator is lit in an attempt that follows a
\* failed one, in which the negative indicator was lit.
C17_Witness ==
  /\ greenLed
  /\ ~redLed
  /\ fails > 0
  /\ Outcome = "Accepted"

\* Program positions from the start of PIN entry to the end of the attempt.
SessionPcs == PinEntryPcs \cup TimedOutPcs \cup PinVerdictPcs

\* C18: from the start of PIN entry to the end of the attempt the resolved
\* record is the one of the card that was read and does not change, and the
\* reader is not read again: no step of PIN entry or of a feedback sequence
\* changes the UID, the resolved row, the start of the timeout window or a
\* key already entered, and none of them returns to the card-reading steps.
C18_SessionIdentityFixed ==
  [][/\ (pc \in SessionPcs \cup UnauthorizedPcs) =>
          /\ uid' = uid
          /\ pc' \in SessionPcs \cup UnauthorizedPcs \cup {"Idle"}
     /\ (pc \in SessionPcs) =>
          /\ scannedArray = uid
          /\ rowStorer = Search(uid) /\ rowStorer # -1
     /\ (pc \in SessionPcs /\ pc' \in SessionPcs) =>
          /\ UNCHANGED <<scannedArray, rowStorer, startTime>>
          /\ i' >= i
          /\ \A k \in 1..pinAmount :
               keypadEnters[k] # UNINIT => keypadEnters'[k] = keypadEnters[k]]_vars

\* C18 witness: Bob's card was read, the keypad has been polled and three
\* keys entered, and the record is still Bob's.
C18_Witness ==
  /\ pc = "GetKey"
  /\ polled
  /\ i = 3
  /\ IsRecord(uid, 2)
  /\ rowStorer = 1

\* C19: the elapsed time millis() - startTime, computed in unsigned 32-bit
\* arithmetic, equals the time really elapsed since the start of the PIN
\* phase also when the clock wraps during it; the deadline test fires exactly
\* when more than 7500 ms have really elapsed, so a wrap causes neither a
\* premature timeout nor a PIN phase that outlives the deadline.
C19_WraparoundSafe ==
  /\ (pc \in PinEntryPcs \cup {"Expired", "ExpiredTone"}) =>
       /\ Sub32(now, startTime) = U32(0, real)
       /\ Expired(now, startTime) <=> real > PIN_TIMEOUT
  /\ (pc \in TimedOutPcs) => checkAt > PIN_TIMEOUT /\ real > PIN_TIMEOUT
  /\ (pc = "GetKey") => checkAt <= PIN_TIMEOUT /\ real <= PIN_TIMEOUT + PollMs
  /\ (pc = "CheckTimeout") => real <= PIN_TIMEOUT + PollMs + 50

\* C19 witness: the PIN phase started less than 7500 ms before the clock
\* wraps, the clock has wrapped, and the timeout was declared 7501 ms after
\* the start.
C19_Witness ==
  /\ pc = "ExpiredTone"
  /\ startTime.hi = 2^16 - 1
  /\ now.hi = 0
  /\ now = Add32(startTime, PIN_TIMEOUT + 1)
  /\ real = PIN_TIMEOUT + 1

====
